---- MODULE Spec2Model ----
(***************************************************************************)
(* graphyne: a Graphite (Carbon plaintext protocol) client.                *)
(*                                                                         *)
(* The model follows src/src/lib.rs: GraphiteClient::new, reconnect,       *)
(* send_message, send_batch_message, Drop, GraphiteMessage and its         *)
(* Display, and GraphiteError with its From conversions.  Every transport  *)
(* operation (connect_timeout, set_ttl, set_nodelay, write_all, shutdown)  *)
(* is one step, so the states inside a call are states of the model.       *)
(***************************************************************************)
EXTENDS Integers, Sequences, FiniteSets, TLC

VARIABLES
    pc,        \* position of the running call ("start": no client built yet)
    call,      \* name of the public operation running or last completed
    client,    \* <<>> or <<GraphiteClient>>: the constructed struct
    stack,     \* call frames (locals), innermost last
    ret,       \* what the last completed public call returned
    open,      \* transport: connections (sockets) currently open
    live,      \* transport: open connections on which write_all would succeed
    nextConn,  \* transport: identity of the next connection to be opened
    arg,       \* history: the arguments (messages, settings) of that operation
    trace,     \* history: transport operations of the current public call
    rcCalls    \* history: reconnect invocations of the current public call

vars == <<pc, call, arg, client, stack, ret, open, live, nextConn, trace, rcCalls>>

(***************************************************************************)
(* Bounds of the exploration.                                              *)
(***************************************************************************)
MaxRetries == 3     \* retries (a u8) ranges over 0 .. MaxRetries
MaxBatch == 3       \* a batch holds 0 .. MaxBatch messages
MaxConns == 4       \* connections opened over the client's lifetime

(***************************************************************************)
(* Program constants.                                                      *)
(***************************************************************************)
DEFAULT_RETRIES == 3
DEFAULT_TIMEOUT == 5000          \* Duration::from_secs(5), in milliseconds
DEFAULT_TCP_TTL == 240           \* Duration::from_secs(240), in seconds

(***************************************************************************)
(* Strings.  TLC treats a string as a sequence of characters for Len, \o   *)
(* and SubSeq.                                                             *)
(***************************************************************************)
CharAt(s, k) == SubSeq(s, k, k)

DecDigits == <<"0", "1", "2", "3", "4", "5", "6", "7", "8", "9">>
HexDigits == <<"0", "1", "2", "3", "4", "5", "6", "7", "8", "9",
               "a", "b", "c", "d", "e", "f">>
HexUpper == <<"0", "1", "2", "3", "4", "5", "6", "7", "8", "9",
              "A", "B", "C", "D", "E", "F">>

\* Value of digit character c in the table, or -1.
DigitVal(c, table) ==
    IF \E k \in 1..Len(table) : table[k] = c
    THEN (CHOOSE k \in 1..Len(table) : table[k] = c) - 1
    ELSE -1

HexVal(c) == IF DigitVal(c, HexDigits) >= 0 THEN DigitVal(c, HexDigits)
             ELSE DigitVal(c, HexUpper)

\* Decimal rendering of an unsigned integer, as {} formats a u64.
RECURSIVE DecString(_)
DecString(n) ==
    IF n < 10 THEN DecDigits[n + 1]
    ELSE DecString(n \div 10) \o DecDigits[(n % 10) + 1]

\* The pieces of s between occurrences of the one-character separator.
RECURSIVE SplitFrom(_, _, _, _)
SplitFrom(s, sep, k, cur) ==
    IF k > Len(s) THEN <<cur>>
    ELSE IF CharAt(s, k) = sep
         THEN <<cur>> \o SplitFrom(s, sep, k + 1, "")
         ELSE SplitFrom(s, sep, k + 1, cur \o CharAt(s, k))

Split(s, sep) == SplitFrom(s, sep, 1, "")

\* Value of a digit string in the radix, or -1 if a character is no digit.
RECURSIVE NumFrom(_, _, _, _)
NumFrom(s, radix, k, acc) ==
    IF k > Len(s) THEN acc
    ELSE LET d == IF radix = 10 THEN DigitVal(CharAt(s, k), DecDigits)
                  ELSE HexVal(CharAt(s, k))
         IN  IF d < 0 THEN -1 ELSE NumFrom(s, radix, k + 1, acc * radix + d)

(***************************************************************************)
(* IpAddr::from_str (std::net), called at lib.rs:238.  IPv4: four decimal  *)
(* octets of 1..3 digits, at most 255, no leading zero.  IPv6: groups of   *)
(* 1..4 hex digits separated by ':', eight of them, or fewer around one    *)
(* "::".  (The IPv6 form with an embedded dotted quad is not among the     *)
(* inputs explored.)  The result is the parsed address or ParseFailure.    *)
(***************************************************************************)
ParseFailure == [v |-> 0, parts |-> <<>>]

\* Variant: the octet's range is not checked.
OctetOk_NoRange(p) ==
    /\ Len(p) \in 1..3
    /\ NumFrom(p, 10, 1, 0) >= 0
    /\ (Len(p) > 1 => CharAt(p, 1) # "0")

OctetOk(p) ==
    /\ Len(p) \in 1..3
    /\ NumFrom(p, 10, 1, 0) \in 0..255
    /\ (Len(p) > 1 => CharAt(p, 1) # "0")

ParseIpv4(s) ==
    LET ps == Split(s, ".")
    IN  IF Len(ps) = 4 /\ \A k \in 1..4 : OctetOk(ps[k])
        THEN [v |-> 4, parts |-> [k \in 1..4 |-> NumFrom(ps[k], 10, 1, 0)]]
        ELSE ParseFailure

GroupOk(g) == Len(g) \in 1..4 /\ NumFrom(g, 16, 1, 0) >= 0

\* Groups of one side of "::" ("" stands for no group at all).
Groups(s) == IF s = "" THEN <<>> ELSE Split(s, ":")

RECURSIVE FindGap(_, _)
FindGap(s, k) ==
    IF k + 1 > Len(s) THEN 0
    ELSE IF SubSeq(s, k, k + 1) = "::" THEN k ELSE FindGap(s, k + 1)

ParseIpv6(s) ==
    LET gap == FindGap(s, 1)
        head == IF gap = 0 THEN Groups(s) ELSE Groups(SubSeq(s, 1, gap - 1))
        tail == IF gap = 0 THEN <<>> ELSE Groups(SubSeq(s, gap + 2, Len(s)))
        given == head \o tail
        zeros == [k \in 1..(8 - Len(given)) |-> 0]
        num(gs) == [k \in 1..Len(gs) |-> NumFrom(gs[k], 16, 1, 0)]
    IN  IF /\ \A k \in 1..Len(given) : GroupOk(given[k])
           /\ IF gap = 0 THEN Len(given) = 8 ELSE Len(given) <= 7
        THEN [v |-> 6, parts |-> num(head) \o zeros \o num(tail)]
        ELSE ParseFailure

IpAddr_from_str(s) ==
    IF ParseIpv4(s) # ParseFailure THEN ParseIpv4(s) ELSE ParseIpv6(s)

\* SocketAddr::new(ip, port)
SocketAddr_new(ip, port) == [ip |-> ip, port |-> port]

(***************************************************************************)
(* GraphiteMessage and its Display: "metric_path value timestamp\n".       *)
(***************************************************************************)
GraphiteMessage_new(metric_path, value, now) ==
    [metric_path |-> metric_path, value |-> value, timestamp |-> now]

to_string(msg) ==
    msg.metric_path \o " " \o msg.value \o " " \o DecString(msg.timestamp) \o "\n"

\* msgs.iter().map(ToString::to_string).collect::<String>()
RECURSIVE Collect(_)
Collect(msgs) ==
    IF msgs = <<>> THEN "" ELSE to_string(Head(msgs)) \o Collect(Tail(msgs))

(***************************************************************************)
(* Errors.  An io::Error is identified by the transport operation that     *)
(* produced it and that operation's position in the call's trace.          *)
(* Error::last_os_error() reads the thread's errno, which was set before   *)
(* the call began: it is produced by no operation of the call.             *)
(***************************************************************************)
last_os_error == [op |-> "last_os_error", at |-> 0]
AddrParseError == [op |-> "addr_parse", at |-> 0]
IoError(op) == [op |-> op, at |-> Len(trace) + 1]

\* GraphiteError { msg: format!("Graphite Error: {last_err}") }
Exhausted(last_err) == [msg |-> <<"Graphite Error: ", last_err>>]
\* impl From<Error> for GraphiteError: msg = err.to_string()
From_Error(err) == [msg |-> <<"", err>>]
\* impl From<AddrParseError> for GraphiteError: msg = err.to_string()
From_AddrParseError(err) == [msg |-> <<"", err>>]

Ok(v) == [kind |-> "Ok", value |-> v]
Ok_Unit == [kind |-> "Ok"]                          \* Ok(())
Ok_Self == [kind |-> "Ok", client |-> "Self"]        \* Ok(Self { .. })
Err(e) == [kind |-> "Err", error |-> e]
Running == [kind |-> "Running"]

(***************************************************************************)
(* Inputs.                                                                 *)
(***************************************************************************)
Addresses == {"127.0.0.1", "::1", "localhost", "10.0.0.256"}
Ports == {2003}
Retries == (0..MaxRetries) \cup {DEFAULT_RETRIES}    \* the builder's default
Timeouts == {DEFAULT_TIMEOUT}
Ttls == {DEFAULT_TCP_TTL}
Messages == { GraphiteMessage_new("cpu.usage", "45.2", 1609459200),
              GraphiteMessage_new("a", "1", 9) }
Batches == UNION { [1..n -> Messages] : n \in 0..MaxBatch }

(***************************************************************************)
(* Frames and the transport.                                               *)
(***************************************************************************)
Self == client[1]
Top == stack[Len(stack)]
\* Variant: a retry resumes after the first line of the buffer.
Payload_Rest(f) ==
    LET full == IF f.fn = "send_message" THEN f.data ELSE f.combined
        cut == IF f.fn = "send_message" THEN 0 ELSE
               IF f.msgs = <<>> THEN 0 ELSE Len(to_string(f.msgs[1]))
    IN  IF f.i = 0 THEN full ELSE SubSeq(full, cut + 1, Len(full))

\* Variant: each turn serializes the message again, stamped with the time
\* of that turn.
Payload_Restamped(f) ==
    IF f.fn = "send_message"
    THEN to_string([f.msg EXCEPT !.timestamp = @ + f.i])
    ELSE f.combined

\* data.as_bytes() (lib.rs:375), combined.as_bytes() (lib.rs:396)
Payload(f) == IF f.fn = "send_message" THEN f.data ELSE f.combined

\* Connection identities are never reused; a call starts only if the
\* connections it can open (n at most) are within MaxConns.
Room(n) == nextConn + n - 1 <= MaxConns

\* Variant: a stream that goes out of use is kept (its descriptor leaked)
\* instead of being dropped.
Close_Keeps(c) == /\ open' = open
                  /\ live' = live

\* A stream is closed when its owner is dropped or overwritten.
Close(c) == /\ open' = open \ {c}
            /\ live' = live \ {c}

Opened(c) == /\ open' = open \cup {c}
             /\ live' = live \cup {c}
             /\ nextConn' = nextConn + 1

Log(entry) == trace' = Append(trace, entry)

Init ==
    /\ pc = "start"
    /\ call = "none"
    /\ arg = <<>>
    /\ client = <<>>
    /\ stack = <<>>
    /\ ret = Running
    /\ open = {}
    /\ live = {}
    /\ nextConn = 1
    /\ trace = <<>>
    /\ rcCalls = 0

(***************************************************************************)
(* GraphiteClient::new (lib.rs:236-252).                                   *)
(***************************************************************************)
\* Variant: a failed step of construction is tried again.
New_Try_Again(err) ==
    /\ ret' = ret
    /\ pc' = "new_connect"
    /\ stack' = stack

\* The `?` of lib.rs:239-241: the error is converted and returned at once.
New_Try(err) ==
    /\ ret' = Err(From_Error(err))
    /\ pc' = "failed"
    /\ stack' = <<>>

New ==
    /\ pc \in {"start", "failed"}
    /\ Room(1)
    /\ \E address \in Addresses, port \in Ports, retries \in Retries,
          timeout \in Timeouts, tcp_ttl \in Ttls :
         LET ip == IpAddr_from_str(address)
         IN  IF ip = ParseFailure
             THEN /\ ret' = Err(From_AddrParseError(AddrParseError))
                  /\ pc' = "failed"
                  /\ stack' = <<>>
                  /\ arg' = << [address |-> address, port |-> port, retries |-> retries,
                                timeout |-> timeout, tcp_ttl |-> tcp_ttl] >>
             ELSE /\ ret' = Running
                  /\ arg' = << [address |-> address, port |-> port, retries |-> retries,
                                timeout |-> timeout, tcp_ttl |-> tcp_ttl] >>
                  /\ pc' = "new_connect"
                  /\ stack' = << [fn |-> "new", address |-> address, port |-> port,
                                  retries |-> retries, timeout |-> timeout,
                                  tcp_ttl |-> tcp_ttl,
                                  sock_addr |-> SocketAddr_new(ip, port)] >>
    /\ call' = "new"
    /\ trace' = <<>>
    /\ rcCalls' = 0
    /\ UNCHANGED <<client, open, live, nextConn>>

New_Connect ==
    /\ pc = "new_connect"
    /\ \E ok \in BOOLEAN :
         LET f == Top
             c == nextConn
         IN  /\ Log([op |-> "connect", ok |-> ok, conn |-> IF ok THEN c ELSE 0,
                     addr |-> f.sock_addr, timeout |-> f.timeout, rc |-> 0])
             /\ IF ok
                THEN /\ Opened(c)
                     /\ stack' = << [connection |-> c] @@ f >>
                     /\ pc' = "new_set_ttl"
                     /\ ret' = ret
                ELSE /\ New_Try(IoError("connect"))
                     /\ UNCHANGED <<open, live, nextConn>>
    /\ UNCHANGED <<call, arg, client, rcCalls>>

New_SetTtl ==
    /\ pc = "new_set_ttl"
    /\ \E ok \in BOOLEAN :
         LET f == Top
         IN  /\ Log([op |-> "set_ttl", ok |-> ok, conn |-> f.connection,
                     ttl |-> f.tcp_ttl, rc |-> 0])
             /\ IF ok
                THEN /\ pc' = "new_set_nodelay"
                     /\ UNCHANGED <<stack, ret, open, live>>
                ELSE /\ New_Try(IoError("set_ttl"))
                     /\ Close(f.connection)
    /\ UNCHANGED <<call, arg, client, nextConn, rcCalls>>

New_SetNodelay ==
    /\ pc = "new_set_nodelay"
    /\ \E ok \in BOOLEAN :
         LET f == Top
         IN  /\ Log([op |-> "set_nodelay", ok |-> ok, conn |-> f.connection,
                     nodelay |-> TRUE, rc |-> 0])
             /\ IF ok
                THEN /\ client' = << [connection |-> f.connection,
                                      sock_addr |-> f.sock_addr,
                                      _address |-> f.address,
                                      _port |-> f.port,
                                      retries |-> f.retries,
                                      timeout |-> f.timeout,
                                      tcp_ttl |-> f.tcp_ttl] >>
                     /\ ret' = Ok_Self
                     /\ pc' = "idle"
                     /\ stack' = <<>>
                     /\ UNCHANGED <<open, live>>
                ELSE /\ New_Try(IoError("set_nodelay"))
                     /\ client' = client
                     /\ Close(f.connection)
    /\ UNCHANGED <<call, arg, nextConn, rcCalls>>

(***************************************************************************)
(* GraphiteClient::reconnect (lib.rs:284-303).                             *)
(***************************************************************************)
\* Variant: the client is rebuilt around the new stream with the default
\* policy.
Install_Rebuilt(self, connect) ==
    [self EXCEPT !.connection = connect,
                 !.retries = DEFAULT_RETRIES,
                 !.timeout = DEFAULT_TIMEOUT,
                 !.tcp_ttl = DEFAULT_TCP_TTL]

\* self.connection = connect (lib.rs:293)
Install(self, connect) == [self EXCEPT !.connection = connect]

\* Variant: the first attempt is not counted as a retry.
ReconnectFrame_FirstFree == [fn |-> "reconnect", last_err |-> last_os_error, i |-> -1]

\* let mut last_err = Error::last_os_error(); let mut i = 0;
ReconnectFrame == [fn |-> "reconnect", last_err |-> last_os_error, i |-> 0]

\* Variant: one attempt more than the bound.
Reconnect_While_Inclusive(i, retries) == i <= retries

\* while i < self.retries (lib.rs:287)
Reconnect_While(i, retries) == i < retries

\* Variant: a failed attempt is not counted.
Reconnect_Failed_Uncounted(f, err) == [f EXCEPT !.last_err = err]

\* Err(err) => last_err = err, then i += 1 (lib.rs:296-298)
Reconnect_Failed(f, err) == [f EXCEPT !.last_err = err, !.i = f.i + 1]

\* Variant: the send loop ignores the result of self.reconnect().
Reconnect_Return_Ignored(res) ==
    IF Len(stack) = 1
    THEN /\ ret' = res
         /\ pc' = "idle"
         /\ stack' = <<>>
    ELSE LET s == stack[Len(stack) - 1]
         IN  /\ ret' = ret
             /\ pc' = "send_loop"
             /\ stack' = << [s EXCEPT !.i = s.i + 1] >>

\* reconnect returns res: to the caller of the public call, or into the send
\* loop that called it, where `?` propagates an Err and Ok falls to i += 1.
Reconnect_Return(res) ==
    IF Len(stack) = 1
    THEN /\ ret' = res
         /\ pc' = "idle"
         /\ stack' = <<>>
    ELSE LET s == stack[Len(stack) - 1]
         IN  IF res.kind = "Err"
             THEN /\ ret' = res
                  /\ pc' = "idle"
                  /\ stack' = <<>>
             ELSE /\ ret' = ret
                  /\ pc' = "send_loop"
                  /\ stack' = << [s EXCEPT !.i = s.i + 1] >>

Reconnect ==
    /\ pc = "idle"
    /\ Room(1)
    /\ call' = "reconnect"
    /\ arg' = <<>>
    /\ stack' = << ReconnectFrame >>
    /\ pc' = "rc_loop"
    /\ ret' = Running
    /\ trace' = <<>>
    /\ rcCalls' = 1
    /\ UNCHANGED <<client, open, live, nextConn>>

Reconnect_Connect ==
    /\ pc = "rc_loop"
    /\ LET f == Top
           c == nextConn
       IN  IF Reconnect_While(f.i, Self.retries)
           THEN \E ok \in BOOLEAN :
                  /\ Log([op |-> "connect", ok |-> ok, conn |-> IF ok THEN c ELSE 0,
                          addr |-> Self.sock_addr, timeout |-> Self.timeout,
                          rc |-> rcCalls])
                  /\ ret' = ret
                  /\ IF ok
                     THEN /\ Opened(c)
                          /\ stack' = [stack EXCEPT ![Len(stack)] = [connect |-> c] @@ f]
                          /\ pc' = "rc_set_ttl"
                     ELSE /\ stack' = [stack EXCEPT ![Len(stack)] =
                                         Reconnect_Failed(f, IoError("connect"))]
                          /\ pc' = pc
                          /\ UNCHANGED <<open, live, nextConn>>
           ELSE /\ Reconnect_Return(Err(Exhausted(f.last_err)))
                /\ UNCHANGED <<trace, open, live, nextConn>>
    /\ UNCHANGED <<call, arg, client, rcCalls>>

\* Variant: a failure to set the TTL is handled like a failed connect, the
\* loop going on to its next attempt.
Reconnect_SetTtl_Retries ==
    /\ pc = "rc_set_ttl"
    /\ \E ok \in BOOLEAN :
         LET f == Top
         IN  /\ Log([op |-> "set_ttl", ok |-> ok, conn |-> f.connect,
                     ttl |-> Self.tcp_ttl, rc |-> rcCalls])
             /\ IF ok
                THEN /\ pc' = "rc_set_nodelay"
                     /\ UNCHANGED <<stack, ret, open, live>>
                ELSE /\ pc' = "rc_loop"
                     /\ stack' = [stack EXCEPT ![Len(stack)] =
                                      Reconnect_Failed(f, IoError("set_ttl"))]
                     /\ Close(f.connect)
                     /\ UNCHANGED ret
    /\ UNCHANGED <<call, arg, client, nextConn, rcCalls>>

\* Variant: the new stream is installed as soon as it is opened and has
\* taken its first option.
Reconnect_SetTtl_Installs ==
    /\ pc = "rc_set_ttl"
    /\ \E ok \in BOOLEAN :
         LET f == Top
         IN  /\ Log([op |-> "set_ttl", ok |-> ok, conn |-> f.connect,
                     ttl |-> Self.tcp_ttl, rc |-> rcCalls])
             /\ IF ok
                THEN /\ pc' = "rc_set_nodelay"
                     /\ client' = << [Self EXCEPT !.connection = f.connect] >>
                     /\ UNCHANGED <<stack, ret, open, live>>
                ELSE /\ Reconnect_Return(Err(From_Error(IoError("set_ttl"))))
                     /\ client' = client
                     /\ Close(f.connect)
    /\ UNCHANGED <<call, arg, nextConn, rcCalls>>

Reconnect_SetTtl ==
    /\ pc = "rc_set_ttl"
    /\ \E ok \in BOOLEAN :
         LET f == Top
         IN  /\ Log([op |-> "set_ttl", ok |-> ok, conn |-> f.connect,
                     ttl |-> Self.tcp_ttl, rc |-> rcCalls])
             /\ IF ok
                THEN /\ pc' = "rc_set_nodelay"
                     /\ UNCHANGED <<stack, ret, open, live>>
                ELSE /\ Reconnect_Return(Err(From_Error(IoError("set_ttl"))))
                     /\ Close(f.connect)
    /\ UNCHANGED <<call, arg, client, nextConn, rcCalls>>

\* Variant: a stream that fails its last option is not dropped on the error
\* path.
Reconnect_SetNodelay_Leaks ==
    /\ pc = "rc_set_nodelay"
    /\ \E ok \in BOOLEAN :
         LET f == Top
         IN  /\ Log([op |-> "set_nodelay", ok |-> ok, conn |-> f.connect,
                     nodelay |-> TRUE, rc |-> rcCalls])
             /\ IF ok
                THEN /\ client' = << Install(Self, f.connect) >>
                     /\ Close(Self.connection)
                     /\ Reconnect_Return(Ok_Unit)
                ELSE /\ client' = client
                     /\ UNCHANGED <<open, live>>
                     /\ Reconnect_Return(Err(From_Error(IoError("set_nodelay"))))
    /\ UNCHANGED <<call, arg, nextConn, rcCalls>>

Reconnect_SetNodelay ==
    /\ pc = "rc_set_nodelay"
    /\ \E ok \in BOOLEAN :
         LET f == Top
         IN  /\ Log([op |-> "set_nodelay", ok |-> ok, conn |-> f.connect,
                     nodelay |-> TRUE, rc |-> rcCalls])
             /\ IF ok
                THEN /\ client' = << Install(Self, f.connect) >>
                     /\ Close(Self.connection)
                     /\ Reconnect_Return(Ok_Unit)
                ELSE /\ client' = client
                     /\ Close(f.connect)
                     /\ Reconnect_Return(Err(From_Error(IoError("set_nodelay"))))
    /\ UNCHANGED <<call, arg, nextConn, rcCalls>>

(***************************************************************************)
(* GraphiteClient::send_message (lib.rs:370-387) and send_batch_message    *)
(* (lib.rs:389-408).                                                       *)
(***************************************************************************)
\* Variant: the loop bound read as "retries beyond the first attempt".
Send_While_Inclusive(i, retries) == i <= retries

\* Variant: the body runs once before the bound is looked at.
Send_While_AtLeastOnce(i, retries) == i = 0 \/ i < retries

\* while i < self.retries (lib.rs:374, lib.rs:395)
Send_While(i, retries) == i < retries

\* Variant: the count leaves out the terminating newline.
Send_Ok_Short(payload) == Ok(Len(payload) - 1)

\* Ok(_) => return Ok(data.len())
Send_Ok(payload) == Ok(Len(payload))

SendMessage ==
    /\ pc = "idle"
    /\ Room(Self.retries)
    /\ \E msg \in Messages :
         /\ arg' = <<msg>>
         /\ stack' = << [fn |-> "send_message", msg |-> msg,
                         last_err |-> last_os_error, i |-> 0,
                         data |-> to_string(msg)] >>
    /\ call' = "send_message"
    /\ pc' = "send_loop"
    /\ ret' = Running
    /\ trace' = <<>>
    /\ rcCalls' = 0
    /\ UNCHANGED <<client, open, live, nextConn>>

SendBatchMessage ==
    /\ pc = "idle"
    /\ Room(Self.retries)
    /\ \E msgs \in Batches :
         /\ arg' = msgs
         /\ stack' = << [fn |-> "send_batch_message", msgs |-> msgs,
                         last_err |-> last_os_error,
                         combined |-> Collect(msgs), i |-> 0] >>
    /\ call' = "send_batch_message"
    /\ pc' = "send_loop"
    /\ ret' = Running
    /\ trace' = <<>>
    /\ rcCalls' = 0
    /\ UNCHANGED <<client, open, live, nextConn>>

\* Variant: the call keeps writing on the stream it found at its start.
Write_Stream_AtStart == IF Len(trace) > 0 THEN trace[1].conn ELSE Self.connection

\* self.connection.write_all (lib.rs:376, lib.rs:397)
Write_Stream == Self.connection

\* Variant: the call refreshes the connection before its first write.
Send_Loop_Refresh ==
    LET f == Top
    IN  IF Send_While(f.i, Self.retries)
        THEN IF rcCalls = 0
             THEN /\ ret' = ret
                  /\ pc' = "rc_loop"
                  /\ stack' = << f, ReconnectFrame >>
                  /\ rcCalls' = rcCalls + 1
                  /\ trace' = trace
             ELSE LET ok == Write_Stream \in live
                  IN  /\ Log([op |-> "write", ok |-> ok, conn |-> Write_Stream,
                              bytes |-> Payload(f), rc |-> 0])
                      /\ IF ok
                         THEN /\ ret' = Send_Ok(Payload(f))
                              /\ pc' = "idle"
                              /\ stack' = <<>>
                              /\ rcCalls' = rcCalls
                         ELSE /\ ret' = ret
                              /\ pc' = "rc_loop"
                              /\ stack' = << [f EXCEPT !.last_err = IoError("write")],
                                             ReconnectFrame >>
                              /\ rcCalls' = rcCalls + 1
        ELSE /\ ret' = Err(Exhausted(f.last_err))
             /\ pc' = "idle"
             /\ stack' = <<>>
             /\ UNCHANGED <<trace, rcCalls>>

\* Variant: the last turn gives up without reconnecting, as no write
\* would follow.
Send_Loop_NoLastReconnect ==
    LET f == Top
    IN  IF Send_While(f.i, Self.retries)
        THEN LET ok == Write_Stream \in live
             IN  /\ Log([op |-> "write", ok |-> ok, conn |-> Write_Stream,
                         bytes |-> Payload(f), rc |-> 0])
                 /\ IF ok
                    THEN /\ ret' = Send_Ok(Payload(f))
                         /\ pc' = "idle"
                         /\ stack' = <<>>
                         /\ rcCalls' = rcCalls
                    ELSE IF Send_While(f.i + 1, Self.retries)
                    THEN /\ ret' = ret
                         /\ pc' = "rc_loop"
                         /\ stack' = << [f EXCEPT !.last_err = IoError("write")],
                                        ReconnectFrame >>
                         /\ rcCalls' = rcCalls + 1
                    ELSE /\ ret' = Err(Exhausted(IoError("write")))
                         /\ pc' = "idle"
                         /\ stack' = <<>>
                         /\ rcCalls' = rcCalls
        ELSE /\ ret' = Err(Exhausted(f.last_err))
             /\ pc' = "idle"
             /\ stack' = <<>>
             /\ UNCHANGED <<trace, rcCalls>>

\* One turn of the while loop, up to the call of self.reconnect().
Send_Loop ==
    LET f == Top
    IN  IF Send_While(f.i, Self.retries)
        THEN LET ok == Write_Stream \in live
             IN  /\ Log([op |-> "write", ok |-> ok, conn |-> Write_Stream,
                         bytes |-> Payload(f), rc |-> 0])
                 /\ IF ok
                    THEN /\ ret' = Send_Ok(Payload(f))
                         /\ pc' = "idle"
                         /\ stack' = <<>>
                         /\ rcCalls' = rcCalls
                    ELSE /\ ret' = ret
                         /\ pc' = "rc_loop"
                         /\ stack' = << [f EXCEPT !.last_err = IoError("write")],
                                        ReconnectFrame >>
                         /\ rcCalls' = rcCalls + 1
        ELSE /\ ret' = Err(Exhausted(f.last_err))
             /\ pc' = "idle"
             /\ stack' = <<>>
             /\ UNCHANGED <<trace, rcCalls>>

SendMessage_Write ==
    /\ pc = "send_loop"
    /\ Top.fn = "send_message"
    /\ Send_Loop
    /\ UNCHANGED <<call, arg, client, open, live, nextConn>>

SendBatchMessage_Write ==
    /\ pc = "send_loop"
    /\ Top.fn = "send_batch_message"
    /\ Send_Loop
    /\ UNCHANGED <<call, arg, client, open, live, nextConn>>

(***************************************************************************)
(* impl Drop for GraphiteClient (lib.rs:411-419): shutdown, result         *)
(* ignored; the stream is then closed with the struct.                     *)
(***************************************************************************)
Drop ==
    /\ pc = "idle"
    /\ \E ok \in BOOLEAN :
         trace' = << [op |-> "shutdown", ok |-> ok, conn |-> Self.connection, rc |-> 0] >>
    /\ Close(Self.connection)
    /\ client' = <<>>
    /\ call' = "drop"
    /\ arg' = <<>>
    /\ pc' = "dropped"
    /\ ret' = Ok_Unit
    /\ rcCalls' = 0
    /\ UNCHANGED <<stack, nextConn>>

(***************************************************************************)
(* The peer (the tests' DummyGraphiteServer accepts a connection and drops *)
(* it): from then on write_all on that connection fails.                   *)
(***************************************************************************)
PeerReset ==
    /\ \E c \in live : live' = live \ {c}
    /\ UNCHANGED <<pc, call, arg, client, stack, ret, open, nextConn, trace, rcCalls>>

Next ==
    \/ New
    \/ New_Connect
    \/ New_SetTtl
    \/ New_SetNodelay
    \/ Reconnect
    \/ Reconnect_Connect
    \/ Reconnect_SetTtl
    \/ Reconnect_SetNodelay
    \/ SendMessage
    \/ SendBatchMessage
    \/ SendMessage_Write
    \/ SendBatchMessage_Write
    \/ Drop
    \/ PeerReset

Spec == Init /\ [][Next]_vars

\* The steps taken inside a call.  The calls are synchronous and every
\* transport operation returns, so a call that can take a step takes it.
Step ==
    \/ New_Connect
    \/ New_SetTtl
    \/ New_SetNodelay
    \/ Reconnect_Connect
    \/ Reconnect_SetTtl
    \/ Reconnect_SetNodelay
    \/ SendMessage_Write
    \/ SendBatchMessage_Write

FairSpec == Spec /\ WF_vars(Step)

(***************************************************************************)
(* Views of the history used by the properties below.                      *)
(***************************************************************************)
Returned == ret.kind # "Running"
InSend == call \in {"send_message", "send_batch_message"}
Ops(op) == SelectSeq(trace, LAMBDA t : t.op = op)
ErrorAt(k) == [op |-> trace[k].op, at |-> k]

\* The batch as one buffer, built from its last message backwards.
RECURSIVE WholeBatch(_)
WholeBatch(msgs) ==
    IF Len(msgs) = 0 THEN ""
    ELSE WholeBatch(SubSeq(msgs, 1, Len(msgs) - 1)) \o to_string(msgs[Len(msgs)])

\* What the caller expects on the wire for the current send call.
Expected == IF call = "send_message" THEN to_string(arg[1]) ELSE WholeBatch(arg)

\* The reconnect invocation that trace[k] belongs to fails with trace[k]:
\* a tuning step failed, or the connect was the last the budget allows.
ReconnectFailedAt(k) ==
    /\ trace[k].rc >= 1
    /\ ~trace[k].ok
    /\ \/ trace[k].op \in {"set_ttl", "set_nodelay"}
       \/ /\ trace[k].op = "connect"
          /\ Cardinality({j \in 1..k : /\ trace[j].op = "connect"
                                       /\ trace[j].rc = trace[k].rc
                                       /\ ~trace[j].ok}) = Self.retries

ReconnectError(k) ==
    IF trace[k].op = "connect" THEN Exhausted(ErrorAt(k)) ELSE From_Error(ErrorAt(k))

C2_Recovery ==
    [][ ( /\ pc = "send_loop"
          /\ Len(Ops("write")) = 1
          /\ rcCalls = 1
          /\ Self.connection \in live
          /\ pc' # pc )
        => ( /\ ret'.kind = "Ok"
             /\ ret'.value = Len(Expected) ) ]_vars

(***************************************************************************)
(* C3  Last-error reporting: an error returned by send_message,            *)
(* send_batch_message or reconnect is the most recent failure among the    *)
(* transport operations of that same call.                                 *)
(***************************************************************************)
C3_LastError ==
    ( /\ call \in {"send_message", "send_batch_message", "reconnect"}
      /\ Returned
      /\ ret.kind = "Err" )
    => \E k \in 1..Len(trace) :
          /\ ~trace[k].ok
          /\ ret.error.msg[2] = ErrorAt(k)
          /\ \A j \in (k + 1)..Len(trace) : trace[j].ok

(***************************************************************************)
(* C4  Batch atomicity: every write attempt of a send_batch_message call   *)
(* carries the concatenation of all messages of the batch in the caller's  *)
(* order; a batch whose first write fails and whose second write succeeds  *)
(* makes exactly two writes.                                               *)
(***************************************************************************)
C4_BatchAtomicity ==
    call = "send_batch_message" =>
        /\ \A k \in 1..Len(trace) :
              trace[k].op = "write" => trace[k].bytes = WholeBatch(arg)
        /\ LET ws == Ops("write")
           IN  (Returned /\ Len(ws) >= 2 /\ ~ws[1].ok /\ ws[2].ok) => Len(ws) = 2

C4_Witness ==
    /\ call = "send_batch_message"
    /\ Returned
    /\ Len(arg) = 3
    /\ arg[1] # arg[2]
    /\ Len(Ops("write")) = 2
    /\ ~Ops("write")[1].ok
    /\ Ops("write")[2].ok

(***************************************************************************)
(* C5  No silent drop: a send call returns Ok exactly when a write of the  *)
(* full payload succeeded in that call; that write is the only successful  *)
(* write and the last transport operation of the call; the count returned  *)
(* is the payload's length; every other call returns an error.             *)
(***************************************************************************)
C5_NoSilentDrop ==
    InSend =>
        LET okWrites == {k \in 1..Len(trace) : trace[k].op = "write" /\ trace[k].ok}
            full == {k \in okWrites : trace[k].bytes = Expected}
        IN  /\ okWrites = full
            /\ Cardinality(okWrites) <= 1
            /\ \A k \in okWrites : k = Len(trace) /\ Returned
            /\ Returned =>
                  /\ ret.kind \in {"Ok", "Err"}
                  /\ (ret.kind = "Ok") <=> (full # {})
                  /\ ret.kind = "Ok" => ret.value = Len(Expected)

C5_Witness ==
    /\ InSend
    /\ Returned
    /\ ret.kind = "Ok"
    /\ Len(trace) > 1
    /\ Len(Expected) > 0

(***************************************************************************)
(* C6  Retry count meaning: with retries = N a send whose writes all fail  *)
(* (every reconnect succeeding) has made N + 1 write attempts, one initial *)
(* attempt and N retries, when it returns its error.                       *)
(***************************************************************************)
C6_AttemptsAreRetriesPlusOne ==
    ( /\ InSend
      /\ Returned
      /\ ret.kind = "Err"
      /\ ret.error.msg[1] = "Graphite Error: "
      /\ ret.error.msg[2].op \in {"write", "last_os_error"} )
    => Len(Ops("write")) = Self.retries + 1

(***************************************************************************)
(* C7  Reconnect bound: each invocation of reconnect makes at most R       *)
(* connection attempts; only its last attempt can succeed; a reconnect     *)
(* call that returns the exhaustion error made exactly R attempts, all     *)
(* failed.                                                                 *)
(***************************************************************************)
C7_ReconnectBound ==
    call \in {"send_message", "send_batch_message", "reconnect"} =>
        /\ \A n \in 1..rcCalls :
              LET cs == SelectSeq(trace, LAMBDA t : t.op = "connect" /\ t.rc = n)
              IN  /\ Len(cs) <= Self.retries
                  /\ \A j \in 1..(Len(cs) - 1) : ~cs[j].ok
        /\ ( /\ call = "reconnect"
             /\ Returned
             /\ ret.kind = "Err"
             /\ ret.error.msg[1] = "Graphite Error: " )
           => /\ Len(Ops("connect")) = Self.retries
              /\ \A k \in 1..Len(trace) : trace[k].op = "connect" /\ ~trace[k].ok

C7_Witness ==
    /\ call = "reconnect"
    /\ Returned
    /\ ret.kind = "Err"
    /\ Self.retries >= 2
    /\ Len(Ops("connect")) = Self.retries
    /\ \A k \in 1..Len(trace) : ~trace[k].ok

(***************************************************************************)
(* C8  Reconnect failure aborts the send: once the reconnect invoked by a  *)
(* send call has failed, no transport operation follows in that call, and  *)
(* the call's next step returns that failure.                              *)
(***************************************************************************)
C8_Aborted ==
    InSend =>
        \A k \in 1..Len(trace) :
            ReconnectFailedAt(k) =>
                /\ k = Len(trace)
                /\ IF Returned THEN ret = Err(ReconnectError(k)) ELSE pc = "rc_loop"

C8_AtOnce ==
    ( /\ InSend
      /\ ~Returned
      /\ Len(trace) > 0
      /\ ReconnectFailedAt(Len(trace))
      /\ pc' # pc )
    => ( /\ ret' = Err(ReconnectError(Len(trace)))
         /\ trace' = trace )

C8_ReconnectFailureAborts == [] C8_Aborted /\ [][C8_AtOnce]_vars

C8_Witness ==
    /\ InSend
    /\ Returned
    /\ Len(trace) > 0
    /\ ReconnectFailedAt(Len(trace))
    /\ trace[Len(trace)].op = "connect"
    /\ Len(Ops("write")) < Self.retries

(***************************************************************************)
(* C9  Construction makes one connection attempt whatever the retry count; *)
(* a failure of the address parse, of that attempt or of the tuning is     *)
(* returned as the error of construction, with no client built and no      *)
(* further attempt.                                                        *)
(***************************************************************************)
C9_ConstructionOnce ==
    call = "new" =>
        /\ Len(Ops("connect")) <= 1
        /\ \A k \in 1..Len(trace) :
              ~trace[k].ok => /\ k = Len(trace)
                              /\ pc = "failed"
                              /\ ret = Err(From_Error(ErrorAt(k)))
        /\ pc = "failed" => ret.kind = "Err" /\ Len(client) = 0
        /\ pc = "idle" => ret.kind = "Ok" /\ Len(Ops("connect")) = 1

C9_Witness ==
    /\ call = "new"
    /\ pc = "failed"
    /\ arg[1].retries >= 2
    /\ Len(trace) = 1
    /\ trace[1].op = "connect"
    /\ ~trace[1].ok

(***************************************************************************)
(* C10  Address validation precedes I/O: construction with an address      *)
(* that is no IP literal fails with the address-parse error and makes no   *)
(* transport operation.                                                    *)
(***************************************************************************)
NonIpLiterals == {"localhost", "10.0.0.256"}

C10_ParseBeforeIo ==
    (call = "new" /\ arg[1].address \in NonIpLiterals) =>
        /\ pc = "failed"
        /\ trace = <<>>
        /\ open = {}
        /\ ret = Err(From_AddrParseError(AddrParseError))

C10_Witness ==
    /\ call = "new"
    /\ arg[1].address = "localhost"
    /\ pc = "failed"

(***************************************************************************)
(* C11  Termination: every call of reconnect, send_message and             *)
(* send_batch_message returns.  A running call can always take a step,     *)
(* every step of a call lowers a non-negative measure of the work left,    *)
(* and under FairSpec a running call leads to a returned one.              *)
(***************************************************************************)
InCall == call \in {"send_message", "send_batch_message", "reconnect"} /\ ~Returned

\* Work left in the innermost reconnect: tuning steps, or attempts and tuning.
ReconnectLeft ==
    IF pc = "rc_set_nodelay" THEN 1
    ELSE IF pc = "rc_set_ttl" THEN 2
    ELSE 3 + (Self.retries - Top.i)

\* Work left in the call: turns of the send loop, each worth more than a
\* whole reconnect, plus the work left in the reconnect under way.
WorkLeft ==
    IF ~InCall THEN 0
    ELSE IF pc = "send_loop"
         THEN (Self.retries - Top.i) * (Self.retries + 5) + (Self.retries + 4)
    ELSE IF Len(stack) = 2
         THEN (Self.retries - stack[1].i) * (Self.retries + 5) + ReconnectLeft
    ELSE ReconnectLeft

C11_CanStep == InCall => ENABLED Step

C11_Progress ==
    (InCall /\ (pc' # pc \/ stack' # stack \/ ret' # ret))
        => (WorkLeft' < WorkLeft /\ WorkLeft' >= 0)

C11_Termination ==
    /\ [] C11_CanStep
    /\ [][C11_Progress]_vars
    /\ (InCall ~> Returned)

C11_Witness ==
    /\ call = "send_message"
    /\ Returned
    /\ Self.retries >= 2
    /\ Len(Ops("write")) = Self.retries
    /\ Len(Ops("connect")) > Self.retries

(***************************************************************************)
(* C12  Replace only when confirmed live: the client's connection changes  *)
(* only in the step in which a reconnect finishes tuning a connection it   *)
(* has just opened, and it changes to that connection; when a reconnect    *)
(* has failed, the client's connection is none of those opened by that     *)
(* reconnect and is still open.                                            *)
(***************************************************************************)
C12_OnlyWhenTuned ==
    (Len(client) = 1 /\ Len(client') = 1 /\ client'[1].connection # Self.connection)
    => LET n == Len(trace')
           c == client'[1].connection
       IN  /\ pc \in {"rc_set_nodelay"}
           /\ n = Len(trace) + 1
           /\ n >= 3
           /\ trace'[n] = [op |-> "set_nodelay", ok |-> TRUE, conn |-> c,
                           nodelay |-> TRUE, rc |-> rcCalls]
           /\ trace'[n - 1].op = "set_ttl" /\ trace'[n - 1].ok /\ trace'[n - 1].conn = c
           /\ trace'[n - 2].op = "connect" /\ trace'[n - 2].ok /\ trace'[n - 2].conn = c
           /\ client' = << [Self EXCEPT !.connection = c] >>

C12_KeptOnFailure ==
    ( /\ Returned
      /\ ret.kind = "Err"
      /\ \/ call = "reconnect"
         \/ InSend /\ Len(trace) > 0 /\ ReconnectFailedAt(Len(trace)) )
    => /\ Self.connection \in open
       /\ \A k \in 1..Len(trace) :
             (trace[k].op = "connect" /\ trace[k].rc = rcCalls)
                 => trace[k].conn # Self.connection

C12_ReplaceOnlyWhenLive == [][C12_OnlyWhenTuned]_vars /\ [] C12_KeptOnFailure

C12_Witness ==
    /\ call = "reconnect"
    /\ Returned
    /\ ret.kind = "Err"
    /\ Len(trace) > 0
    /\ trace[Len(trace)].op = "set_nodelay"
    /\ Self.connection \in live

(***************************************************************************)
(* C13  Single-handle invariant, as claimed: in every reachable state at   *)
(* most one connection is open.                                            *)
(***************************************************************************)
C13_SingleHandle == Cardinality(open) <= 1

InTuning == pc \in {"rc_set_ttl", "rc_set_nodelay"}

(***************************************************************************)
(* C13  as amended: the client holds exactly one connection, which is      *)
(* open; outside a reconnect that is the only open connection; inside a    *)
(* reconnect, from a successful open until the new connection is installed *)
(* or discarded, exactly two are open: the held one and the new one.       *)
(***************************************************************************)
C13_OneHandleTwoOpenInReconnect ==
    /\ Cardinality(open) <= 2
    /\ Len(client) = 0 => Cardinality(open) <= 1
    /\ (Len(client) = 1 /\ ~InTuning) => open = {Self.connection}
    /\ InTuning => /\ Top.connect # Self.connection
                   /\ open = {Self.connection, Top.connect}

C13_Witness ==
    /\ pc = "rc_set_nodelay"
    /\ Cardinality(open) = 2
    /\ Cardinality(live) = 2

(***************************************************************************)
(* C14  Tuning errors are not retried: when a connection opened inside     *)
(* reconnect fails to take a socket option, that failure is the last       *)
(* transport operation of the call, the call has returned that error, and  *)
(* the new connection is discarded, the client keeping the one it held.    *)
(***************************************************************************)
C14_TuningNotRetried ==
    \A k \in 1..Len(trace) :
        ( /\ trace[k].rc >= 1
          /\ trace[k].op \in {"set_ttl", "set_nodelay"}
          /\ ~trace[k].ok )
        => /\ k = Len(trace)
           /\ ret = Err(From_Error(ErrorAt(k)))
           /\ trace[k].conn # Self.connection
           /\ trace[k].conn \notin open
           /\ Self.connection \in open

C14_Witness ==
    /\ call = "reconnect"
    /\ Returned
    /\ Self.retries >= 2
    /\ Len(Ops("connect")) = 1
    /\ trace[Len(trace)].op = "set_ttl"
    /\ ~trace[Len(trace)].ok

(***************************************************************************)
(* C15  Writes follow the current handle: every write goes to the          *)
(* connection the client holds at that moment, which is open; a connection *)
(* that has been replaced or discarded is never open or written again, in  *)
(* this or a later call; within one send call every write after the first  *)
(* goes to the connection the preceding reconnect installed, and no two    *)
(* writes go to the same connection.                                       *)
(***************************************************************************)
Written(c) ==
    /\ Len(trace') = Len(trace) + 1
    /\ trace'[Len(trace')].op = "write"
    /\ trace'[Len(trace')].conn = c

Gone == {c \in 1..(nextConn - 1) : c \notin open}

C15_ToCurrent ==
    /\ \A c \in 1..MaxConns :
          Written(c) => Len(client) = 1 /\ c = Self.connection /\ c \in open
    /\ \A c \in Gone : c \notin open' /\ ~Written(c)
    /\ \A c \in Gone : Len(client') = 1 => client'[1].connection # c

C15_WithinCall ==
    InSend =>
        \A j \in 1..Len(trace) :
            trace[j].op = "write" =>
                /\ j > 1 => /\ trace[j - 1].op = "set_nodelay"
                            /\ trace[j - 1].ok
                            /\ trace[j - 1].conn = trace[j].conn
                /\ \A k \in 1..(j - 1) :
                      trace[k].op = "write" => trace[k].conn # trace[j].conn

C15_WritesFollowHandle == [][C15_ToCurrent]_vars /\ [] C15_WithinCall

C15_Witness ==
    /\ call = "send_message"
    /\ Returned
    /\ ret.kind = "Ok"
    /\ Len(Ops("write")) = 2
    /\ Gone # {}
    /\ nextConn > 3

(***************************************************************************)
(* C16  Payload stability across retries: all the write attempts of one    *)
(* send_message call carry the same bytes, the serialization of the        *)
(* message the call was given, timestamp included.                         *)
(***************************************************************************)
C16_PayloadStable ==
    call = "send_message" =>
        LET ws == Ops("write")
        IN  \A j \in 1..Len(ws) :
               /\ ws[j].bytes = ws[1].bytes
               /\ ws[j].bytes = arg[1].metric_path \o " " \o arg[1].value \o " "
                                    \o DecString(arg[1].timestamp) \o "\n"

C16_Witness ==
    /\ call = "send_message"
    /\ Returned
    /\ Len(Ops("write")) = 3
    /\ ~Ops("write")[2].ok

(***************************************************************************)
(* C17  Reconnect only after a failed write: inside a send call a          *)
(* reconnect starts only in the step in which a write has failed, so the   *)
(* operations of each reconnect directly follow a failed write; a send     *)
(* whose first write succeeds returns Ok with that write as its only       *)
(* transport operation, no reconnect, and the handle it started with.      *)
(***************************************************************************)
C17_StartedByFailedWrite ==
    (InSend /\ ~Returned /\ rcCalls' # rcCalls)
    => /\ rcCalls' = rcCalls + 1
       /\ pc = "send_loop"
       /\ pc' = "rc_loop"
       /\ trace' = Append(trace, [op |-> "write", ok |-> FALSE,
                                  conn |-> Self.connection, bytes |-> Expected,
                                  rc |-> 0])

C17_FirstWriteKeepsHandle ==
    (InSend /\ pc = "send_loop" /\ trace = <<>> /\ Len(trace') = 1 /\ trace'[1].ok)
    => /\ client' = client
       /\ open' = open
       /\ nextConn' = nextConn
       /\ rcCalls' = 0
       /\ ret'.kind = "Ok"

C17_AfterFailedWrite ==
    InSend =>
        /\ \A k \in 1..Len(trace) :
              (trace[k].rc >= 1 /\ (k = 1 \/ trace[k - 1].rc # trace[k].rc))
                  => /\ k > 1
                     /\ trace[k - 1].op = "write"
                     /\ ~trace[k - 1].ok
        /\ (Len(trace) >= 1 /\ trace[1].ok)
              => /\ Len(trace) = 1
                 /\ rcCalls = 0
                 /\ Self.connection = trace[1].conn

C17_ReconnectOnlyAfterFailedWrite ==
    /\ [][C17_StartedByFailedWrite]_vars
    /\ [][C17_FirstWriteKeepsHandle]_vars
    /\ [] C17_AfterFailedWrite

C17_Witness ==
    /\ call = "send_batch_message"
    /\ Returned
    /\ ret.kind = "Ok"
    /\ Len(trace) = 1
    /\ Self.retries = 3
    /\ Self.connection = 1

(***************************************************************************)
(* C18  Endpoint and policy are immutable: the client is built with the    *)
(* endpoint and policy given to the constructor; no later step changes its *)
(* endpoint, retry count, timeout or TTL setting; every connection attempt *)
(* of a reconnect or send targets that endpoint with that timeout, and     *)
(* every TTL set is that TTL.                                              *)
(***************************************************************************)
Policy(c) == [sock_addr |-> c.sock_addr, address |-> c._address, port |-> c._port,
              retries |-> c.retries, timeout |-> c.timeout, tcp_ttl |-> c.tcp_ttl]

C18_Frozen ==
    /\ (Len(client) = 1 /\ Len(client') = 1) => Policy(client'[1]) = Policy(Self)
    /\ (Len(client) = 0 /\ Len(client') = 1)
          => Policy(client'[1]) =
                [sock_addr |-> SocketAddr_new(IpAddr_from_str(arg[1].address), arg[1].port),
                 address |-> arg[1].address, port |-> arg[1].port,
                 retries |-> arg[1].retries, timeout |-> arg[1].timeout,
                 tcp_ttl |-> arg[1].tcp_ttl]

C18_Targets ==
    (Len(client) = 1 /\ call # "drop") =>
        \A k \in 1..Len(trace) :
            /\ trace[k].op = "connect"
                  => trace[k].addr = Self.sock_addr /\ trace[k].timeout = Self.timeout
            /\ trace[k].op = "set_ttl" => trace[k].ttl = Self.tcp_ttl

C18_EndpointAndPolicyImmutable == [][C18_Frozen]_vars /\ [] C18_Targets

C18_Witness ==
    /\ call = "reconnect"
    /\ Returned
    /\ ret.kind = "Ok"
    /\ Self._address = "::1"
    /\ Self.retries = 2
    /\ Self.connection >= 3
    /\ Len(Ops("connect")) = 2

(***************************************************************************)
(* C19  A send call that ends by exhausting its write attempts (it         *)
(* returned an error and no reconnect of it failed) made R writes, all     *)
(* failed, each followed by a successful reconnect, the last one included: *)
(* the successful reconnects are as many as the writes, and when R >= 1    *)
(* the client is left holding the connection opened by the last reconnect, *)
(* open and never written to.                                              *)
(***************************************************************************)
SendExhausted ==
    /\ InSend
    /\ Returned
    /\ ret.kind = "Err"
    /\ ~(Len(trace) > 0 /\ ReconnectFailedAt(Len(trace)))

Installs == SelectSeq(trace, LAMBDA t : t.op = "set_nodelay" /\ t.ok)

ConnectsOf(n) == SelectSeq(trace, LAMBDA t : t.op = "connect" /\ t.rc = n)

C20_ConnectsAtMostSquare ==
    InSend =>
        /\ Len(Ops("connect")) <= Self.retries * Self.retries
        /\ \A n \in 1..rcCalls : Len(ConnectsOf(n)) <= Self.retries
        /\ \A k \in 1..Len(trace) :
              trace[k].op = "connect" => trace[k].rc \in 1..rcCalls

C20_Witness ==
    /\ call = "send_message"
    /\ Returned
    /\ Self.retries = 3
    /\ Len(Ops("connect")) = Self.retries * Self.retries
    /\ Len(Ops("connect")) > Self.retries

(***************************************************************************)
(* C21  Zero retry budget: on a client built with retries = 0 a            *)
(* send_message, send_batch_message or reconnect call makes no transport   *)
(* operation at all and returns the exhaustion error, also when the held   *)
(* connection is healthy; the client keeps the connection it was built     *)
(* with, the only one open.                                                *)
(***************************************************************************)
C21_NoAttempt ==
    (Len(client) = 1 /\ Self.retries = 0) =>
        /\ Self.connection = nextConn - 1
        /\ open = {Self.connection}
        /\ (InSend \/ call = "reconnect") =>
              /\ trace = <<>>
              /\ rcCalls = (IF call = "reconnect" THEN 1 ELSE 0)
              /\ Returned => ret = Err(Exhausted(last_os_error))

C21_HandleKept ==
    (Len(client) = 1 /\ Self.retries = 0 /\ Len(client') = 1)
        => /\ client' = client
           /\ open' = open
           /\ nextConn' = nextConn
           /\ (InCall /\ (pc' # pc \/ ret' # ret)) => ret'.kind = "Err"

OpenedInCall == {trace[k].conn : k \in {j \in 1..Len(trace) : trace[j].op = "connect"
                                                            /\ trace[j].ok}}

C22_NoLeak ==
    /\ pc = "idle" =>
          /\ Len(client) = 1
          /\ Cardinality(open) = 1
          /\ Self.connection \in open
          /\ live \subseteq open
          /\ \A c \in OpenedInCall : c # Self.connection => c \notin open
          /\ \A c \in 1..(nextConn - 1) : c # Self.connection => c \notin open
    /\ pc \in {"start", "failed", "dropped"} => Len(client) = 0 /\ open = {}

C22_Witness ==
    /\ pc = "idle"
    /\ call = "send_message"
    /\ ret.kind = "Err"
    /\ Len(Installs) = 1
    /\ trace[Len(trace)].op = "set_nodelay"
    /\ ~trace[Len(trace)].ok
    /\ Cardinality(OpenedInCall) = 2
    /\ nextConn = 4

====
